---- MODULE Spec2Model ----
(***************************************************************************)
(* Model of the Salesforce REST client (salesforce/client.py) and of the   *)
(* MCP tool layer over it (tools/appointments.py).                         *)
(*                                                                         *)
(* Strings that the code cuts or joins (instance URL, API base, path, URL) *)
(* are sequences of symbols: every "/" is an element of its own and every  *)
(* other element is a slash-free chunk.  JSON and Python values carry      *)
(* their type: [t |-> "str", v |-> "abc"] or [t |-> "num", v |-> "7"].     *)
(*                                                                         *)
(* One call runs as the steps of _make_request: the request is sent, the   *)
(* remote answers, the token endpoint answers, the remote answers the      *)
(* re-sent request.  The remote and the token endpoint are free to answer  *)
(* with any response of ResourceResponses / TokenResponses.                *)
(***************************************************************************)
EXTENDS Integers, Sequences, FiniteSets, TLC

VARIABLES
    access_token,   \* self._access_token
    instance_url,   \* self._instance_url
    api_base_url,   \* self._api_base_url
    pc,             \* position of the running call inside _make_request
    call,           \* locals of the running (or last) call
    log,            \* HTTP traffic of the running (or last) call, in order
    mr,             \* outcome of _make_request for the last call
    result,         \* outcome of the last call as its caller sees it
    minted,         \* history: the token of the last successful refresh
    calls           \* number of calls started

vars == <<access_token, instance_url, api_base_url, pc, call, log, mr, result,
          minted, calls>>

\* ------------------------------------------------------------------ bounds
MaxCalls == 2

\* ------------------------------------------------------------ typed values
Str(s) == [t |-> "str", v |-> s]
Num(s) == [t |-> "num", v |-> s]

\* Python's str(): a str is itself, a number becomes its decimal text.
PyStr(x) == [t |-> "str", v |-> x.v]

\* history value of `minted` while no refresh has succeeded
NoToken == [t |-> "none", v |-> ""]

\* ------------------------------------------------------------------ strings
RECURSIVE rstrip(_)
rstrip(s) ==
    IF s /= <<>> /\ s[Len(s)] = "/" THEN rstrip(SubSeq(s, 1, Len(s) - 1)) ELSE s

\* (variant) only one leading slash is cut, as path.removeprefix("/") would
lstrip_OnlyOne(s) ==
    IF s /= <<>> /\ Head(s) = "/" THEN Tail(s) ELSE s

RECURSIVE lstrip(_)
lstrip(s) ==
    IF s /= <<>> /\ Head(s) = "/" THEN lstrip(Tail(s)) ELSE s

IsPrefix(p, s) == Len(p) <= Len(s) /\ SubSeq(s, 1, Len(p)) = p

\* ----------------------------------------------------------------- settings
SALESFORCE_API_VERSION == "v60.0"

\* values of settings.SALESFORCE_INSTANCE_URL the client may be built with
ConfiguredInstanceURLs ==
    { <<"https://old">>, <<"https://old", "/">>, <<"https://old", "/", "/">> }

\* f"{instance_url}/services/data/{api_version}"
ApiBaseOf(url, version) == url \o <<"/", "services", "/", "data", "/", version>>

\* f"{self._api_base_url}/{path}" after path.lstrip("/")
BuildURL(base, path) == base \o <<"/">> \o lstrip(path)

\* ------------------------------------------------------- client operations
Creates == {"create_contact", "create_appointment"}
Updates == {"update_contact", "update_appointment"}
Gets    == {"get_contact", "get_appointment"}
Deletes == {"delete_contact", "delete_appointment"}
Queries == {"query", "list_contacts", "list_appointments"}
Ops     == Creates \cup Updates \cup Gets \cup Deletes \cup Queries

RecordIds == {"003xyz"}

\* methods and relative paths a caller may hand to _make_request itself
HttpMethods   == {"GET", "POST", "PATCH", "DELETE"}
RelativePaths == { <<"query">>, <<"/", "query">>, <<"/", "/", "query">> }

SObject(op) ==
    IF op \in {"create_contact", "get_contact", "update_contact", "delete_contact"}
    THEN "Contact" ELSE "Event"

OpMethod(op) ==
    CASE op \in Creates -> "POST"
      [] op \in Updates -> "PATCH"
      [] op \in Deletes -> "DELETE"
      [] OTHER          -> "GET"

OpPath(op, id) ==
    CASE op \in Creates -> <<"/", "sobjects", "/", SObject(op)>>
      [] op \in Queries -> <<"/", "query">>
      [] OTHER          -> <<"/", "sobjects", "/", SObject(op), "/", id>>

\* parameter names of the client methods, in order (self left out)
Params(op) ==
    CASE op \in Creates                -> <<"fields">>
      [] op = "update_contact"         -> <<"contact_id", "fields">>
      [] op = "update_appointment"     -> <<"event_id", "fields">>
      [] op \in {"get_contact", "delete_contact"}         -> <<"contact_id">>
      [] op \in {"get_appointment", "delete_appointment"} -> <<"event_id">>
      [] op = "query"                  -> <<"soql">>
      [] OTHER                         -> <<"limit">>

\* parameters with a default value
Defaulted(op) == IF op \in {"list_contacts", "list_appointments"} THEN {"limit"} ELSE {}

\* ------------------------------------------------------------- tool layer
\* keyword names and number of positional arguments the tool salesforce_<op>
\* passes to salesforce_client.<op>
ToolKeywords(op) ==
    CASE op \in Creates                -> {"data"}
      [] op = "update_contact"         -> {"contact_id", "data"}
      [] op = "update_appointment"     -> {"event_id", "data"}
      [] op = "get_contact"            -> {"contact_id"}
      [] op \in {"get_appointment", "delete_appointment"} -> {"event_id"}
      [] op \in {"list_contacts", "list_appointments"}    -> {"limit"}
      [] OTHER                         -> {}

ToolPositional(op) == IF op \in {"delete_contact", "query"} THEN 1 ELSE 0

\* Python's binding of a call's arguments to the parameters of the callee:
\* it fails with TypeError on an unknown keyword, on a parameter given twice
\* and on a required parameter left without a value.
Binds(params, defaulted, npos, keywords) ==
    LET names == {params[i] : i \in 1..Len(params)}
        byPos == {params[i] : i \in 1..(IF npos <= Len(params) THEN npos ELSE Len(params))}
    IN  /\ npos <= Len(params)
        /\ keywords \subseteq names
        /\ keywords \cap byPos = {}
        /\ names \ defaulted \subseteq byPos \cup keywords

ToolCallBinds(op) == Binds(Params(op), Defaulted(op), ToolPositional(op), ToolKeywords(op))

\* --------------------------------------------------------------- responses
ResourceStatuses == {200, 204, 302, 401, 404}

\* body of a resource response: marker = "INVALID_SESSION_ID" in response.text,
\* json = the text parses as a JSON object, has_id / id = its "id" member
ResourceBodies ==
    { [marker |-> TRUE,  json |-> TRUE,  has_id |-> FALSE, id |-> Str("")],
      [marker |-> FALSE, json |-> FALSE, has_id |-> FALSE, id |-> Str("")],
      [marker |-> FALSE, json |-> TRUE,  has_id |-> FALSE, id |-> Str("")],
      [marker |-> FALSE, json |-> TRUE,  has_id |-> TRUE,  id |-> Str("003new")],
      [marker |-> FALSE, json |-> TRUE,  has_id |-> TRUE,  id |-> Num("7")] }

ResourceResponses == [status : ResourceStatuses, body : ResourceBodies]

TokenStatuses == {200, 302, 400}

ReturnedInstanceURLs == { <<"https://new">>, <<"https://new", "/">> }

\* body of a token-endpoint response: json = it parses, has_token /
\* access_token and has_url / instance_url = its members
TokenBodies ==
    { [json |-> FALSE, has_token |-> FALSE, access_token |-> Str(""),
       has_url |-> FALSE, instance_url |-> <<>>],
      [json |-> TRUE, has_token |-> FALSE, access_token |-> Str(""),
       has_url |-> FALSE, instance_url |-> <<>>],
      [json |-> TRUE, has_token |-> FALSE, access_token |-> Str(""),
       has_url |-> TRUE, instance_url |-> <<"https://new">>] }
    \cup [json : {TRUE}, has_token : {TRUE}, access_token : {Str("tok1"), Str("tok2")},
          has_url : {FALSE}, instance_url : {<<>>}]
    \cup [json : {TRUE}, has_token : {TRUE}, access_token : {Str("tok1"), Str("tok2")},
          has_url : {TRUE}, instance_url : ReturnedInstanceURLs]

TokenResponses == [status : TokenStatuses, body : TokenBodies]

\* ---------------------------------------------------------------- outcomes
Returned(v)         == [kind |-> "return", value |-> v]
Raised(e)           == [kind |-> "raise", exc |-> e]
RaisedWith(e, s, b) == [kind |-> "raise", exc |-> e, status |-> s, body |-> b]
NoOutcome           == [kind |-> "none"]
PyNone              == [t |-> "None", v |-> ""]

\* (variant) only 4xx and 5xx count as failures, as in the refresh's own test
IsSuccess_Below400(status) == status < 400

\* httpx.Response.is_success
IsSuccess(status) == status >= 200 /\ status <= 299

\* response.raise_for_status(): HTTPStatusError (it holds the response) unless is_success
RaiseForStatus(resp) ==
    IF IsSuccess(resp.status)
    THEN Returned(resp)
    ELSE RaisedWith("HTTPStatusError", resp.status, resp.body)

\* (variant) only 5xx answers are rejected
RefreshRejects_ServerErrorsOnly(status) == status >= 500

\* the token endpoint's answer is an error for _refresh_access_token
RefreshRejects(status) == status >= 400

\* outcome of _refresh_access_token on a token response
RefreshOutcome(tr) ==
    IF RefreshRejects(tr.status)
        THEN RaisedWith("SalesforceAuthError", tr.status, tr.body)
    ELSE IF ~tr.body.json
        THEN Raised("JSONDecodeError")
    ELSE IF ~tr.body.has_token
        THEN Raised("KeyError")
    ELSE Returned(PyStr(tr.body.access_token))

\* the instance URL after a successful refresh
RefreshedInstanceURL(old, body) ==
    IF body.has_url THEN rstrip(body.instance_url) ELSE old

\* (variant) instance_url is taken from the payload before access_token is read
InstanceURLOnFailure_AssignedEarly(old, body) ==
    IF body.json /\ body.has_url THEN rstrip(body.instance_url) ELSE old

\* the instance URL after a refresh that raised: every raise of
\* _refresh_access_token comes before its first assignment to self
InstanceURLOnFailure(old, body) == old

\* (variant) the branch tests for 403 instead of 401
ShouldRetry_WrongStatus(retry_on_invalid_session, resp) ==
    /\ retry_on_invalid_session
    /\ resp.status = 403
    /\ resp.body.marker

\* (variant) the branch is taken on every 401, marker or not
ShouldRetry_AnyUnauthorized(retry_on_invalid_session, resp) ==
    /\ retry_on_invalid_session
    /\ resp.status = 401

\* the condition of the refresh-and-resend branch of _make_request
ShouldRetry(retry_on_invalid_session, resp) ==
    /\ retry_on_invalid_session
    /\ resp.status = 401
    /\ resp.body.marker

\* the token the re-sent request carries: the local `token` of the first attempt
RetryToken(local_token, refreshed) == local_token

\* the URL of the re-sent request: the local `url` built before the refresh
RetryURL(local_url, base, path) == local_url

\* the condition under which _make_request refreshes before the first request
NoCachedToken(tok) == tok = PyNone

\* (variant) create_contact reads the member "Id" with .get(): str(None)
CreateContactValue_WrongKey(body) == Str("None")

\* what each operation makes of the response _make_request returned
CreateContactValue(body)     == PyStr(body.id)
CreateAppointmentValue(body) == body.id

OpResult(op, resp) ==
    CASE op \in Creates ->
            IF ~resp.body.json THEN Raised("JSONDecodeError")
            ELSE IF ~resp.body.has_id THEN Raised("KeyError")
            ELSE IF op = "create_contact" THEN Returned(CreateContactValue(resp.body))
            ELSE Returned(CreateAppointmentValue(resp.body))
      [] op \in Gets \cup Queries ->
            IF ~resp.body.json THEN Raised("JSONDecodeError") ELSE Returned(resp.body)
      [] OTHER -> Returned(PyNone)

\* what the tool returns for the client operation's return value
ToolValue(op, id, v) ==
    CASE op \in Creates -> [Id |-> v]
      [] op = "update_contact"     -> [status |-> "success", contact_id |-> id]
      [] op = "update_appointment" -> [status |-> "success", event_id |-> id]
      [] op \in Deletes            -> [status |-> "success"]
      [] OTHER                     -> v

\* the caller's outcome, given the outcome of _make_request
CallerOutcome(c, m) ==
    IF m.kind = "raise" \/ c.entry = "pipeline" THEN m
    ELSE LET r == OpResult(c.op, m.value)
         IN  IF r.kind = "raise" THEN r
             ELSE IF c.entry = "tool" THEN Returned(ToolValue(c.op, c.id, r.value))
             ELSE r

\* ------------------------------------------------------------ HTTP traffic
\* a resource request as sent; `minted` and `base` record the last minted
\* token and the cached API base at the moment of sending
Request(method, url, bearer, content_type, lastMinted, base) ==
    [kind |-> "request", method |-> method, url |-> url, bearer |-> bearer,
     content_type |-> content_type, minted |-> lastMinted, base |-> base]

Response(resp)      == [kind |-> "response", status |-> resp.status, body |-> resp.body]
TokenRequest        == [kind |-> "token_request"]
TokenResponse(tr)   == [kind |-> "token_response", status |-> tr.status, body |-> tr.body]

\* headers["Content-Type"] is set for POST and PATCH on the first attempt
SetsContentType(method) == method \in {"POST", "PATCH"}

NoCall ==
    [entry |-> "none", op |-> "none", id |-> "", method |-> "", path |-> <<>>,
     url |-> <<>>, cached |-> Str(""), token |-> Str(""),
     retry_on_invalid_session |-> TRUE]

\* ------------------------------------------------------------------- Init
\* SalesforceClient.__init__
Init ==
    /\ \E u \in ConfiguredInstanceURLs :
          /\ instance_url = rstrip(u)
          /\ api_base_url = ApiBaseOf(rstrip(u), SALESFORCE_API_VERSION)
    /\ access_token = Str("")
    /\ pc = "idle"
    /\ call = NoCall
    /\ log = <<>>
    /\ mr = NoOutcome
    /\ result = NoOutcome
    /\ minted = NoToken
    /\ calls = 0

\* ----------------------------------------------------------------- actions
\* the client operation `op` enters _make_request: the URL is built and either
\* the first request or (no token cached) the token request is sent
EnterMakeRequest(entry, op, id, method, path) ==
    LET c == [entry |-> entry, op |-> op, id |-> id, method |-> method,
              path |-> path,
              url |-> BuildURL(api_base_url, path),
              cached |-> access_token, token |-> access_token,
              retry_on_invalid_session |-> TRUE]
    IN  /\ call' = c
        /\ mr' = NoOutcome
        /\ result' = NoOutcome
        /\ IF NoCachedToken(access_token)
           THEN /\ log' = <<TokenRequest>>
                /\ pc' = "refresh_first"
           ELSE /\ log' = <<Request(c.method, c.url, c.token,
                                    SetsContentType(c.method), minted, api_base_url)>>
                /\ pc' = "await_first"
        /\ UNCHANGED <<access_token, instance_url, api_base_url, minted>>

\* a caller invokes the client operation directly
ClientCall(op, id) ==
    /\ pc = "idle"
    /\ calls < MaxCalls
    /\ calls' = calls + 1
    /\ EnterMakeRequest("client", op, id, OpMethod(op), OpPath(op, id))

\* a caller invokes _make_request itself with a method and a relative path
PipelineCall(method, path) ==
    /\ pc = "idle"
    /\ calls < MaxCalls
    /\ calls' = calls + 1
    /\ EnterMakeRequest("pipeline", "_make_request", "", method, path)

\* the MCP tool salesforce_<op> is invoked and calls the client operation
ToolCall(op, id) ==
    /\ pc = "idle"
    /\ calls < MaxCalls
    /\ calls' = calls + 1
    /\ IF ToolCallBinds(op)
       THEN EnterMakeRequest("tool", op, id, OpMethod(op), OpPath(op, id))
       ELSE /\ call' = [NoCall EXCEPT !.entry = "tool", !.op = op, !.id = id]
            /\ log' = <<>>
            /\ mr' = NoOutcome
            /\ result' = Raised("TypeError")
            /\ UNCHANGED <<access_token, instance_url, api_base_url, pc, minted>>

\* raise_for_status on the final response, then the operation's and the tool's
\* handling of what _make_request returned
Finish(resp) ==
    /\ mr' = RaiseForStatus(resp)
    /\ result' = CallerOutcome(call, RaiseForStatus(resp))
    /\ pc' = "idle"

\* the remote answers the first request
RecvFirstResponse(resp) ==
    /\ pc = "await_first"
    /\ IF ShouldRetry(call.retry_on_invalid_session, resp)
       THEN /\ log' = log \o <<Response(resp), TokenRequest>>
            /\ pc' = "refresh_retry"
            /\ UNCHANGED <<mr, result>>
       ELSE /\ log' = Append(log, Response(resp))
            /\ Finish(resp)
    /\ UNCHANGED <<access_token, instance_url, api_base_url, call, minted, calls>>

\* the token endpoint answers: _refresh_access_token runs to its end, and on
\* success _make_request sends the request that follows the refresh
RecvTokenResponse(tr) ==
    /\ pc \in {"refresh_first", "refresh_retry"}
    /\ LET o == RefreshOutcome(tr)
           newURL  == RefreshedInstanceURL(instance_url, tr.body)
           newBase == ApiBaseOf(newURL, SALESFORCE_API_VERSION)
       IN  IF o.kind = "raise"
           THEN /\ log' = Append(log, TokenResponse(tr))
                /\ mr' = o
                /\ result' = o
                /\ pc' = "idle"
                /\ instance_url' = InstanceURLOnFailure(instance_url, tr.body)
                /\ UNCHANGED <<access_token, api_base_url, call, minted>>
           ELSE /\ instance_url' = newURL
                /\ api_base_url' = newBase
                /\ access_token' = o.value
                /\ minted' = o.value
                /\ UNCHANGED <<mr, result>>
                /\ IF pc = "refresh_first"
                   THEN /\ call' = [call EXCEPT !.token = o.value]
                        /\ log' = log \o <<TokenResponse(tr),
                                   Request(call.method, call.url, o.value,
                                           SetsContentType(call.method), o.value, newBase)>>
                        /\ pc' = "await_first"
                   ELSE /\ call' = call
                        /\ log' = log \o <<TokenResponse(tr),
                                   Request(call.method,
                                           RetryURL(call.url, newBase, call.path),
                                           RetryToken(call.token, o.value),
                                           FALSE, o.value, newBase)>>
                        /\ pc' = "await_retry"
    /\ UNCHANGED calls

\* (variant) a resend that re-enters the refresh branch when the re-sent request fails
\* the same way
RecvRetryResponse_Loop(resp) ==
    /\ pc = "await_retry"
    /\ IF ShouldRetry(call.retry_on_invalid_session, resp)
       THEN /\ log' = log \o <<Response(resp), TokenRequest>>
            /\ pc' = "refresh_retry"
            /\ UNCHANGED <<mr, result>>
       ELSE /\ log' = Append(log, Response(resp))
            /\ Finish(resp)
    /\ UNCHANGED <<access_token, instance_url, api_base_url, call, minted, calls>>

\* the remote answers the re-sent request: no further branch, raise_for_status
RecvRetryResponse(resp) ==
    /\ pc = "await_retry"
    /\ log' = Append(log, Response(resp))
    /\ Finish(resp)
    /\ UNCHANGED <<access_token, instance_url, api_base_url, call, minted, calls>>

Next ==
    \/ \E op \in Ops, id \in RecordIds : ClientCall(op, id)
    \/ \E op \in Ops, id \in RecordIds : ToolCall(op, id)
    \/ \E method \in HttpMethods, path \in RelativePaths : PipelineCall(method, path)
    \/ \E resp \in ResourceResponses : RecvFirstResponse(resp)
    \/ \E tr \in TokenResponses : RecvTokenResponse(tr)
    \/ \E resp \in ResourceResponses : RecvRetryResponse(resp)

Spec == Init /\ [][Next]_vars

\* -------------------------------------------------------------- type check
TypeOK ==
    /\ pc \in {"idle", "refresh_first", "await_first", "refresh_retry", "await_retry"}
    /\ calls \in 0..MaxCalls
    /\ access_token.t = "str"
    /\ api_base_url = ApiBaseOf(instance_url, SALESFORCE_API_VERSION)

\* ------------------------------------------------- reading the call's log
Done        == pc = "idle" /\ call.entry /= "none"
ReqIdx      == {i \in DOMAIN log : log[i].kind = "request"}
RespIdx     == {i \in DOMAIN log : log[i].kind = "response"}
TokReqIdx   == {i \in DOMAIN log : log[i].kind = "token_request"}
TokRespIdx  == {i \in DOMAIN log : log[i].kind = "token_response"}
LogKinds    == [i \in DOMAIN log |-> log[i].kind]
Min(S)      == CHOOSE x \in S : \A y \in S : x <= y
Invalid(e)  == e.status = 401 /\ e.body.marker
In2xx(n)    == n \in 200..299
\* the call ended in an exception of the refresh, not of a resource response
RefreshRaised == mr.kind = "raise" /\ mr.exc /= "HTTPStatusError"
\* the last entry of the log is a resource response: the final response
HasFinal    == log /= <<>> /\ log[Len(log)].kind = "response"
Final       == log[Len(log)]
AsResponse(e) == [status |-> e.status, body |-> e.body]

\* ------------------------------------------------------------------ claims

\* C1: every resource request sent by _make_request carries as bearer
\* credential the access token most recently minted by a successful refresh;
\* in particular the request re-sent after a refresh triggered by a
\* 401/INVALID_SESSION_ID response carries the token that refresh returned.
\* (Stated for the requests sent once a token has been minted; the requests
\* sent before any refresh are the subject of C4.)
C1_RequestsCarryLatestMintedToken ==
    \A i \in ReqIdx : log[i].minted /= NoToken => log[i].bearer = log[i].minted

\* C2: when the first resource response is 401 with the INVALID_SESSION_ID
\* marker and the refresh succeeds, the call consists of the first request,
\* exactly one token-endpoint call, then exactly one re-sent request, and the
\* outcome of _make_request is the outcome of the re-sent request: its response
\* when 2xx, the error carrying its status and body otherwise.
C2_OneRefreshOneResend ==
    (Done /\ RespIdx /= {} /\ Invalid(log[Min(RespIdx)]) /\ ~RefreshRaised) =>
        /\ LogKinds = <<"request", "response", "token_request", "token_response",
                        "request", "response">>
        /\ mr = IF In2xx(log[6].status)
                THEN [kind |-> "return", value |-> AsResponse(log[6])]
                ELSE [kind |-> "raise", exc |-> "HTTPStatusError",
                      status |-> log[6].status, body |-> log[6].body]

C2_Witness ==
    /\ Done /\ Len(log) = 6 /\ Invalid(log[2])
    /\ mr.kind = "return" /\ mr.value.status = 200

\* C3: no call ever sends a third resource request or a second refresh; when
\* both the first and the re-sent request are answered 401/INVALID_SESSION_ID
\* the call ends after exactly two resource requests and one refresh, and the
\* caller gets the second failure.
C3_RetryAtMostOnce ==
    /\ Cardinality(ReqIdx) <= 2
    /\ Cardinality(TokReqIdx) <= 1
    /\ (Done /\ Cardinality(RespIdx) >= 2 /\ \A i \in RespIdx : Invalid(log[i])) =>
          /\ Cardinality(ReqIdx) = 2
          /\ Cardinality(TokReqIdx) = 1
          /\ Cardinality(RespIdx) = 2
          /\ mr = [kind |-> "raise", exc |-> "HTTPStatusError",
                   status |-> Final.status, body |-> Final.body]
          /\ result = mr

C3_Witness ==
    /\ Done /\ Len(log) = 6 /\ Invalid(log[2]) /\ Invalid(log[6])
    /\ result.kind = "raise"

\* C4: on a client without a cached token a refresh completes before the first
\* resource request of the call, so no resource request is ever sent while no
\* token has been minted (none goes out with the empty credential).
C4_NoRequestWithoutMintedToken ==
    \A i \in ReqIdx :
        /\ log[i].bearer /= Str("")
        /\ log[i].minted = NoToken => \E k \in TokRespIdx : k < i

\* C5: after a successful refresh answering access_token T and instance_url U
\* the cached token is T, the cached instance URL is U, the API base is
\* U + "/services/data/" + api_version and every resource request sent after
\* the refresh, the re-sent one included, is addressed under that base; without
\* instance_url in the answer the cached base stays what it was.
C5_RefreshRedirectsRequests ==
    \A k \in TokRespIdx : k < Len(log) =>
        /\ access_token = log[k].body.access_token
        /\ log[k].body.has_url =>
              /\ instance_url = log[k].body.instance_url
              /\ api_base_url = ApiBaseOf(log[k].body.instance_url, SALESFORCE_API_VERSION)
              /\ \A j \in ReqIdx : j > k =>
                    IsPrefix(ApiBaseOf(log[k].body.instance_url, SALESFORCE_API_VERSION)
                                \o <<"/">>, log[j].url)
        /\ ~log[k].body.has_url => api_base_url = log[1].base

\* C6: if the final resource response of a call has a status outside 200-299,
\* _make_request ends in the error carrying that status and body and the caller
\* gets no value; if it is 204 or any other 2xx, _make_request returns that
\* response without error.
C6_Non2xxRaises ==
    (Done /\ HasFinal) =>
        IF In2xx(Final.status)
        THEN mr = [kind |-> "return", value |-> AsResponse(Final)]
        ELSE /\ mr = [kind |-> "raise", exc |-> "HTTPStatusError",
                      status |-> Final.status, body |-> Final.body]
             /\ result.kind = "raise"

C6_Witness ==
    /\ Done /\ HasFinal /\ Len(log) = 6
    /\ Final.status = 302
    /\ mr.kind = "raise" /\ mr.status = 302

\* C7: the refresh fails with the authentication error carrying status and body
\* for every token-endpoint response whose status is outside 200-299 (1xx and
\* 3xx included); a token is returned only for a 2xx response.
C7_RefreshRaisesOnNon2xx ==
    \A k \in TokRespIdx : ~In2xx(log[k].status) =>
        /\ k = Len(log)
        /\ pc = "idle"
        /\ mr = [kind |-> "raise", exc |-> "SalesforceAuthError",
                 status |-> log[k].status, body |-> log[k].body]

\* C8: a token-endpoint request is issued only at the start of a call that finds
\* no cached token, or directly after a resource response with status 401 and
\* the INVALID_SESSION_ID marker; a call whose first resource response is
\* anything else issues no refresh and exactly one resource request.
C8_RefreshOnlyWhenNeeded ==
    /\ \A k \in TokReqIdx :
          \/ k = 1 /\ call.cached \in {PyNone, Str("")}
          \/ k > 1 /\ log[k - 1].kind = "response" /\ Invalid(log[k - 1])
    /\ (Done /\ RespIdx /= {} /\ ~Invalid(log[Min(RespIdx)])) =>
          /\ TokReqIdx = {}
          /\ Cardinality(ReqIdx) = 1

C8_Witness ==
    /\ Done /\ Len(log) = 2
    /\ log[2].kind = "response" /\ log[2].status = 401 /\ ~log[2].body.marker
    /\ calls = 2 /\ minted /= NoToken

\* C9: a create or update tool invoked with valid data makes its client
\* operation send the HTTP request, and on a 2xx answer the create tool returns
\* {"Id": <id of the created record>} and the update tool returns status
\* "success" with the given record id.
C9_ToolsReachTheRemote ==
    (Done /\ call.entry = "tool" /\ call.op \in Creates \cup Updates) =>
        /\ ReqIdx /= {}
        /\ (HasFinal /\ In2xx(Final.status)) =>
              /\ (call.op \in Creates /\ Final.body.json /\ Final.body.has_id) =>
                    result = [kind |-> "return", value |-> [Id |-> Final.body.id]]
              /\ call.op \in Updates =>
                    /\ result.kind = "return"
                    /\ result.value.status = "success"

\* C10 (as stated): for create_contact and create_appointment, whenever the
\* final response is 2xx and its JSON body has an id member, the identifier
\* returned to the caller equals that member's value.
C10_ReturnedIdIsTheField ==
    (Done /\ call.entry = "client" /\ call.op \in Creates /\ HasFinal
          /\ In2xx(Final.status) /\ Final.body.json /\ Final.body.has_id) =>
        result = [kind |-> "return", value |-> Final.body.id]

\* C10 (amended): for both create operations, whenever the final response is
\* 2xx and its JSON body has an id member that is a string, the identifier
\* returned to the caller equals that value; for an id that is not a string
\* create_appointment returns it unchanged and create_contact returns its
\* str() text.
C10_ReturnedIdIsTheStringField ==
    (Done /\ call.entry = "client" /\ call.op \in Creates /\ HasFinal
          /\ In2xx(Final.status) /\ Final.body.json /\ Final.body.has_id) =>
        /\ result.kind = "return"
        /\ Final.body.id.t = "str" => result.value = Final.body.id
        /\ (Final.body.id.t /= "str" /\ call.op = "create_appointment") =>
              result.value = Final.body.id
        /\ (Final.body.id.t /= "str" /\ call.op = "create_contact") =>
              result.value = [t |-> "str", v |-> Final.body.id.v]

C10_Witness ==
    /\ Done /\ call.entry = "client" /\ call.op = "create_contact"
    /\ HasFinal /\ Final.status = 200 /\ Final.body.has_id
    /\ Final.body.id = Str("003new")
    /\ result = [kind |-> "return", value |-> Str("003new")]

\* C11: for every relative path with zero or more leading slashes the URL that
\* _make_request builds is the API base cached at that moment, exactly one "/",
\* then the path without its leading slashes; no two slashes meet anywhere in
\* it, whatever instance URL (with or without trailing slashes) was configured
\* or returned by a refresh.  Every request of the call is sent to that URL.
NoDoubleSlash(u) == \A i \in 1..(Len(u) - 1) : ~(u[i] = "/" /\ u[i + 1] = "/")

C11_UrlJoinsBaseAndPath ==
    ReqIdx /= {} =>
        LET base == log[Min(ReqIdx)].base
            path == call.path
        IN  /\ \E n \in 0..Len(path) :
                  /\ \A i \in 1..n : path[i] = "/"
                  /\ n < Len(path) => path[n + 1] /= "/"
                  /\ call.url = base \o <<"/">> \o SubSeq(path, n + 1, Len(path))
            /\ NoDoubleSlash(call.url)
            /\ \A i \in ReqIdx : log[i].url = call.url

C11_Witness ==
    /\ calls = 2 /\ pc = "await_first"
    /\ call.path = <<"/", "/", "query">>
    /\ instance_url = <<"https://new">>
    /\ call.url = <<"https://new", "/", "services", "/", "data", "/", "v60.0",
                    "/", "query">>

\* C12: if the refresh triggered by a 401/INVALID_SESSION_ID response fails, the
\* call ends there with the refresh's exception: no second resource request is
\* sent, no second refresh is attempted and the 401 response is not the result.
\* A token-endpoint answer with an error status (4xx, 5xx) always makes the
\* refresh fail, and the exception is then the authentication error carrying
\* that status and body.
C12_FailedRefreshEndsTheCall ==
    \A k \in TokRespIdx :
        /\ log[k].status >= 400 => (k = Len(log) /\ pc = "idle")
        /\ (k > 2 /\ k = Len(log) /\ pc = "idle" /\ Invalid(log[k - 2])) =>
              /\ Cardinality(ReqIdx) = 1
              /\ Cardinality(TokReqIdx) = 1
              /\ result.kind = "raise"
              /\ result.exc /= "HTTPStatusError"
              /\ mr = result
              /\ log[k].status >= 400 =>
                    mr = [kind |-> "raise", exc |-> "SalesforceAuthError",
                          status |-> log[k].status, body |-> log[k].body]

C12_Witness ==
    /\ Done /\ Len(log) = 4
    /\ log[2].kind = "response" /\ Invalid(log[2])
    /\ log[4].kind = "token_response" /\ log[4].status = 400
    /\ result.kind = "raise" /\ result.exc = "SalesforceAuthError"

\* C13: a refresh that fails (error status, unreadable answer, or an answer
\* without access_token) leaves the cached access token, instance URL and API
\* base as they were; they change only in a step that is a successful refresh,
\* which sets all three from the one answer: the token to its access_token, the
\* instance URL to its instance_url without trailing slashes (or leaves it when
\* the answer has none) and the API base to the one derived from it.
Session == <<access_token, instance_url, api_base_url>>

C13_SessionReplacedOnlyAsAWhole ==
    [][ /\ (pc \in {"refresh_first", "refresh_retry"} /\ pc' = "idle") =>
              Session' = Session
        /\ Session' /= Session =>
              /\ pc \in {"refresh_first", "refresh_retry"}
              /\ pc' /= "idle"
              /\ LET tr == log'[Len(log) + 1]
                 IN  /\ tr.kind = "token_response"
                     /\ tr.body.json /\ tr.body.has_token
                     /\ access_token' = tr.body.access_token
                     /\ IF tr.body.has_url
                        THEN /\ IsPrefix(instance_url', tr.body.instance_url)
                             /\ \A i \in (Len(instance_url') + 1)..Len(tr.body.instance_url) :
                                   tr.body.instance_url[i] = "/"
                             /\ instance_url' /= <<>> =>
                                   instance_url'[Len(instance_url')] /= "/"
                        ELSE instance_url' = instance_url
                     /\ api_base_url' = instance_url' \o
                           <<"/", "services", "/", "data", "/", "v60.0">>
      ]_vars

C13_Witness ==
    /\ Done /\ calls = 2 /\ Len(log) = 4
    /\ log[4].kind = "token_response" /\ log[4].status = 200
    /\ ~log[4].body.has_token /\ log[4].body.has_url
    /\ result.kind = "raise" /\ result.exc = "KeyError"
    /\ access_token = Str("tok1") /\ minted = Str("tok1")
    /\ instance_url = <<"https://old">>
    /\ api_base_url = <<"https://old", "/", "services", "/", "data", "/", "v60.0">>

\* C14: session-expiry recovery succeeds within one call: if the cached token is
\* rejected with 401/INVALID_SESSION_ID, the refresh succeeds, and the remote
\* accepts exactly the newly minted token (2xx for it, 401/INVALID_SESSION_ID
\* for any other), then that call returns the remote's success response.
C14_RecoveryWithinOneCall ==
    ( /\ Done
      /\ LogKinds = <<"request", "response", "token_request", "token_response",
                      "request", "response">>
      /\ Invalid(log[2])
      /\ log[1].bearer /= log[4].body.access_token
      /\ IF log[5].bearer = log[4].body.access_token
         THEN In2xx(log[6].status)
         ELSE Invalid(log[6]) ) =>
        /\ In2xx(log[6].status)
        /\ mr = [kind |-> "return", value |-> AsResponse(log[6])]

====
